---- MODULE Spec2Model ----
(***************************************************************************)
(* Model of the inference service of prodesk98/resumidor                   *)
(* (src/server/core.py: Embedding.embed, Reranker.rerank,                  *)
(* Summarization.summarize and their asyncio.to_thread wrappers) and of    *)
(* OpenAILLM.generate (src/llm/openai_llm.py).                             *)
(*                                                                         *)
(* A Python str is modelled by its run-length encoding: a sequence of runs *)
(* [ch, n] standing for n copies of the character ch.  len() and strip()   *)
(* are computed on that encoding, so that texts of 4096 and 4097           *)
(* characters are ordinary small values.  A Python value that is not a str *)
(* carries another type tag.  Model scores (floats) are modelled by        *)
(* naturals: only their order matters to the code.                         *)
(***************************************************************************)
EXTENDS Integers, Sequences, FiniteSets, TLC

VARIABLES
    call,       \* the synchronous call made last: [fn, query, items, text]
    oracle,     \* what the underlying model answers in that call
    eff,        \* what the call did: [ret, calls, log]
    pc,         \* "called" before the method has run, "returned" after
    task,       \* each event-loop task: its state, the wrapper it awaits, its result
    queue,      \* the executor's queue of work items not yet taken by a thread
    cfut,       \* the executor future of each task's work item
    running,    \* the work items the pool's threads are running
    gen         \* a call of OpenAILLM.generate under its retry policy

syncVars == <<call, oracle, eff, pc>>

asyncVars == <<task, queue, cfut, running>>

vars == <<call, oracle, eff, pc, task, queue, cfut, running, gen>>

----------------------------------------------------------------------------
(* Bounds of the model *)

MaxDocs == 3

MaxScore == 2

MaxTexts == 2

NumTasks == 2

PoolSize == 1

----------------------------------------------------------------------------
(* Python strings *)

Run(c, k) == [ch |-> c, n |-> k]

Str(runs) == [type |-> "str", runs |-> runs]

NonStr == [type |-> "int", runs |-> <<>>]

IsStr(v) == v.type = "str"

IsSpace(c) == c \in {" ", "\n", "\t"}

RECURSIVE SumRuns(_)
SumRuns(runs) ==
    IF runs = <<>> THEN 0 ELSE Head(runs).n + SumRuns(Tail(runs))

\* len(text)
PyLen(v) == SumRuns(v.runs)

RECURSIVE LStripRuns(_)
LStripRuns(runs) ==
    IF runs = <<>> THEN <<>>
    ELSE IF IsSpace(Head(runs).ch) THEN LStripRuns(Tail(runs))
    ELSE runs

RECURSIVE RStripRuns(_)
RStripRuns(runs) ==
    IF runs = <<>> THEN <<>>
    ELSE IF IsSpace(runs[Len(runs)].ch)
         THEN RStripRuns(SubSeq(runs, 1, Len(runs) - 1))
    ELSE runs

\* text.strip()
Strip(v) == Str(RStripRuns(LStripRuns(v.runs)))

\* bool(v) of a value: a str is true when it is not empty
Truthy(v) == IF IsStr(v) THEN PyLen(v) > 0 ELSE TRUE

\* the test 'not s or not isinstance(s, str) or not s.strip()'
BlankOrNotStr(v) == ~Truthy(v) \/ ~IsStr(v) \/ ~Truthy(Strip(v))

----------------------------------------------------------------------------
(* Results of a call *)

Return(v) == [kind |-> "return", exc |-> "", msg |-> "", value |-> v]

Raise(e, m) == [kind |-> "raise", exc |-> e, msg |-> m, value |-> <<>>]

Effect(r, k, l) == [ret |-> r, calls |-> k, log |-> l]

MAX_TEXT_LEN == 4096

----------------------------------------------------------------------------
(* Embedding.embed *)

\* faulty variant: elements are not stripped before the emptiness test
EmbedInvalidNoStrip(texts) ==
    \/ texts = <<>>
    \/ ~ \A i \in 1..Len(texts) : IsStr(texts[i]) /\ Truthy(texts[i])

EmbedInvalid(texts) ==
    \/ texts = <<>>
    \/ ~ \A i \in 1..Len(texts) : IsStr(texts[i]) /\ Truthy(Strip(texts[i]))

\* faulty variant: a failing item ends the loop and the vectors so far are
\* returned
RECURSIVE EncodeAllPartial(_, _, _, _)
EncodeAllPartial(texts, orc, i, acc) ==
    IF i > Len(texts) THEN Effect(Return(acc), Len(texts), <<"info">>)
    ELSE IF ~orc[i].ok THEN Effect(Return(acc), i, <<"info">>)
    ELSE EncodeAllPartial(texts, orc, i + 1, Append(acc, orc[i].v))

\* the list comprehension over self._model.encode: the first failing item
\* ends the call with its exception
RECURSIVE EncodeAll(_, _, _, _)
EncodeAll(texts, orc, i, acc) ==
    IF i > Len(texts) THEN Effect(Return(acc), Len(texts), <<"info">>)
    ELSE IF ~orc[i].ok THEN Effect(Raise(orc[i].exc, ""), i, <<"info">>)
    ELSE EncodeAll(texts, orc, i + 1, Append(acc, orc[i].v))

Embed(texts, orc) ==
    IF EmbedInvalid(texts)
    THEN Effect(Raise("ValueError",
                      "Input texts must be a non-empty list of non-empty strings."),
                0, <<>>)
    ELSE EncodeAll(texts, orc, 1, <<>>)

----------------------------------------------------------------------------
(* Reranker.rerank *)

\* zip(documents, scores)
Zip(documents, scores) ==
    [i \in 1..Len(documents) |-> <<documents[i], scores[i]>>]

\* faulty variant: a descending sort that reverses the pairs of equal score
RECURSIVE InsertDescUnstable(_, _)
InsertDescUnstable(sorted, p) ==
    IF sorted = <<>> THEN <<p>>
    ELSE IF Head(sorted)[2] > p[2]
         THEN <<Head(sorted)>> \o InsertDescUnstable(Tail(sorted), p)
    ELSE <<p>> \o sorted

\* faulty variant: ascending order (reverse=True left out)
RECURSIVE InsertAsc(_, _)
InsertAsc(sorted, p) ==
    IF sorted = <<>> THEN <<p>>
    ELSE IF Head(sorted)[2] <= p[2]
         THEN <<Head(sorted)>> \o InsertAsc(Tail(sorted), p)
    ELSE <<p>> \o sorted

\* where sorted(..., key=score, reverse=True) puts a pair among the pairs
\* already placed: behind every pair whose score is not smaller (stable)
RECURSIVE InsertDesc(_, _)
InsertDesc(sorted, p) ==
    IF sorted = <<>> THEN <<p>>
    ELSE IF Head(sorted)[2] >= p[2]
         THEN <<Head(sorted)>> \o InsertDesc(Tail(sorted), p)
    ELSE <<p>> \o sorted

RECURSIVE SortDesc(_, _)
SortDesc(pairs, acc) ==
    IF pairs = <<>> THEN acc
    ELSE SortDesc(Tail(pairs), InsertDesc(acc, Head(pairs)))

Unzip(pairs) ==
    << [i \in 1..Len(pairs) |-> pairs[i][1]],
       [i \in 1..Len(pairs) |-> pairs[i][2]] >>

\* faulty variant: without the 'fewer than two documents' branch, a single
\* document is scored and returned
RerankSingleRanked(query, documents, orc) ==
    IF BlankOrNotStr(query)
    THEN Effect(Raise("ValueError", "Query must be a non-empty string."), 0, <<>>)
    ELSE IF documents = <<>>
    THEN Effect(Return(<< <<>>, <<>> >>), 0, <<"warning">>)
    ELSE IF ~orc.ok
    THEN Effect(Raise(orc.exc, ""), 1, <<"info">>)
    ELSE IF Len(documents) = 1
    THEN Effect(Return(<< <<documents[1]>>, <<orc.scores[1]>> >>), 1, <<"info">>)
    ELSE Effect(Return(Unzip(SortDesc(Zip(documents, orc.scores), <<>>))),
                1, <<"info">>)

Rerank(query, documents, orc) ==
    IF BlankOrNotStr(query)
    THEN Effect(Raise("ValueError", "Query must be a non-empty string."), 0, <<>>)
    ELSE IF documents = <<>>
    THEN Effect(Return(<< <<>>, <<>> >>), 0, <<"warning">>)
    ELSE IF Len(documents) < 2
    THEN Effect(Return(<< <<>>, <<>> >>), 0, <<"warning">>)
    ELSE IF ~orc.ok
    THEN Effect(Raise(orc.exc, ""), 1, <<"info">>)
    ELSE IF Len(documents) = 1
    THEN Effect(Return(<< <<documents[1]>>, <<orc.scores[1]>> >>), 1, <<"info">>)
    ELSE Effect(Return(Unzip(SortDesc(Zip(documents, orc.scores), <<>>))),
                1, <<"info">>)

----------------------------------------------------------------------------
(* Summarization.summarize *)

\* faulty variant: the length is checked before the blank tests
SummarizeLengthFirst(query, text, orc) ==
    IF IsStr(text) /\ PyLen(text) > MAX_TEXT_LEN
    THEN Effect(Raise("ValueError",
                      "Input text exceeds the maximum length of 4096 characters."),
                0, <<>>)
    ELSE IF BlankOrNotStr(text)
    THEN Effect(Raise("ValueError", "Input text must be a non-empty string."),
                0, <<>>)
    ELSE IF BlankOrNotStr(query)
    THEN Effect(Raise("ValueError", "Query must be a non-empty string."), 0, <<>>)
    ELSE IF ~orc.ok
    THEN Effect(Raise(orc.exc, ""), 1, <<"info">>)
    ELSE Effect(Return(orc.summary), 1, <<"info">>)

Summarize(query, text, orc) ==
    IF BlankOrNotStr(text)
    THEN Effect(Raise("ValueError", "Input text must be a non-empty string."),
                0, <<>>)
    ELSE IF BlankOrNotStr(query)
    THEN Effect(Raise("ValueError", "Query must be a non-empty string."), 0, <<>>)
    ELSE IF PyLen(text) > MAX_TEXT_LEN
    THEN Effect(Raise("ValueError",
                      "Input text exceeds the maximum length of 4096 characters."),
                0, <<>>)
    ELSE IF ~orc.ok
    THEN Effect(Raise(orc.exc, ""), 1, <<"info">>)
    ELSE Effect(Return(orc.summary), 1, <<"info">>)

----------------------------------------------------------------------------
(* Inputs *)

\* strings: empty, blank, padded, plain, and texts around the length limit
EmptyStr == Str(<<>>)
BlankStr == Str(<<Run(" ", 2)>>)
WordA == Str(<<Run("a", 1)>>)
WordB == Str(<<Run("b", 3)>>)
Padded == Str(<<Run(" ", 1), Run("a", 2), Run("\n", 1)>>)
AtLimit == Str(<<Run("a", MAX_TEXT_LEN)>>)
PaddedAtLimit == Str(<<Run(" ", 1), Run("a", MAX_TEXT_LEN - 2), Run(" ", 1)>>)
OverLimit == Str(<<Run("a", MAX_TEXT_LEN), Run("b", 1)>>)
PaddedOverLimit == Str(<<Run("a", MAX_TEXT_LEN - 1), Run(" ", 2)>>)
BlankOverLimit == Str(<<Run(" ", MAX_TEXT_LEN + 1)>>)

Queries == {EmptyStr, BlankStr, WordA, Padded, NonStr}

Elements == {EmptyStr, BlankStr, WordA, WordB, NonStr}

Documents == {WordA, WordB}

Bodies == {EmptyStr, BlankStr, WordA, Padded, NonStr, AtLimit, PaddedAtLimit,
           OverLimit, PaddedOverLimit, BlankOverLimit}

SeqsUpTo(S, n) == UNION {[1..k -> S] : k \in 0..n}

ModelErrors == {"RuntimeError", "OutOfMemoryError"}

Vectors == {1, 2}

EncodeOutcomes ==
    [ok : {TRUE}, v : Vectors, exc : {""}]
        \cup [ok : {FALSE}, v : {0}, exc : ModelErrors]

ScoreOutcomes(n) ==
    [ok : {TRUE}, scores : [1..n -> 0..MaxScore], exc : {""}]
        \cup [ok : {FALSE}, scores : {<<>>}, exc : ModelErrors]

Summaries == {"s1", "s2"}

SummaryOutcomes ==
    [ok : {TRUE}, summary : Summaries, exc : {""}]
        \cup [ok : {FALSE}, summary : {""}, exc : ModelErrors]

NoEffect == Effect(Return(<<>>), 0, <<>>)

----------------------------------------------------------------------------
(* The synchronous methods: a call with its arguments, then its outcome *)

EmbedCalls ==
    {[fn |-> "embed", query |-> EmptyStr, items |-> texts, text |-> EmptyStr] :
        texts \in SeqsUpTo(Elements, MaxTexts)}

RerankCalls ==
    {[fn |-> "rerank", query |-> q, items |-> documents, text |-> EmptyStr] :
        q \in Queries, documents \in SeqsUpTo(Documents, MaxDocs)}

SummarizeCalls ==
    {[fn |-> "summarize", query |-> q, items |-> <<>>, text |-> t] :
        q \in Queries, t \in Bodies}

\* the answers the underlying model may give in a call
Oracles(c) ==
    IF c.fn = "embed" THEN [1..Len(c.items) -> EncodeOutcomes]
    ELSE IF c.fn = "rerank" THEN ScoreOutcomes(Len(c.items))
    ELSE SummaryOutcomes

DoEmbed ==
    /\ pc = "called" /\ call.fn = "embed"
    /\ eff' = Embed(call.items, oracle)
    /\ pc' = "returned"
    /\ UNCHANGED <<call, oracle, asyncVars, gen>>

DoRerank ==
    /\ pc = "called" /\ call.fn = "rerank"
    /\ eff' = Rerank(call.query, call.items, oracle)
    /\ pc' = "returned"
    /\ UNCHANGED <<call, oracle, asyncVars, gen>>

DoSummarize ==
    /\ pc = "called" /\ call.fn = "summarize"
    /\ eff' = Summarize(call.query, call.text, oracle)
    /\ pc' = "returned"
    /\ UNCHANGED <<call, oracle, asyncVars, gen>>

SyncNext == DoEmbed \/ DoRerank \/ DoSummarize

----------------------------------------------------------------------------
(* The asyncio.to_thread wrappers: embed_texts, rerank_documents,          *)
(* summarize_text.  to_thread submits the bound method and its arguments   *)
(* to the event loop's default thread pool and awaits the future of that   *)
(* work item.                                                              *)

Tasks == 1..NumTasks

NoResult == [kind |-> "none", exc |-> "", msg |-> "", value |-> <<>>]

IdleTask ==
    [st |-> "idle", wrapper |-> "", query |-> EmptyStr, items |-> <<>>,
     text |-> EmptyStr, result |-> NoResult]

NoFuture == [state |-> "NONE", result |-> NoResult, runs |-> 0]

\* the work item to_thread submits: the bound method and its arguments
Item(t, method, q, its, txt) ==
    [fut |-> t, fn |-> method, query |-> q, items |-> its, text |-> txt]

EmbedTextsItem(t, texts) == Item(t, "embed", EmptyStr, texts, EmptyStr)

RerankDocumentsItem(t, query, documents) ==
    Item(t, "rerank", query, documents, EmptyStr)

\* faulty variant: the arguments passed in the wrong order
SummarizeTextItemSwapped(t, query, text) ==
    Item(t, "summarize", text, <<>>, query)

SummarizeTextItem(t, query, text) == Item(t, "summarize", query, <<>>, text)

\* the worker thread's call of the submitted method
RunItem(item, orc) ==
    IF item.fn = "embed" THEN Embed(item.items, orc)
    ELSE IF item.fn = "rerank" THEN Rerank(item.query, item.items, orc)
    ELSE Summarize(item.query, item.text, orc)

\* faulty variant: an exception is swallowed and an empty value returned
AwaitOutcomeFallback(result) ==
    IF result.kind = "raise" THEN Return(<<>>) ELSE result

\* what 'return await ...' gives the wrapper's caller: the value the method
\* returned, or the exception it raised, raised again
AwaitOutcome(result) == result

\* faulty variant: cancelling also cancels an executor future that is running
CancelFutureAlways(state) ==
    IF state \in {"PENDING", "RUNNING"} THEN "CANCELLED" ELSE state

\* cancelling the awaited future cancels the executor future only while its
\* work item has not been taken by a thread
CancelFuture(state) == IF state = "PENDING" THEN "CANCELLED" ELSE state

\* arguments the tasks pass
AsyncTexts == {<<WordA>>, <<>>}

AsyncRerankArgs == {<<WordA, <<WordA, WordB>> >>, <<WordA, <<WordB>> >>}

AsyncSummarizeArgs == {<<WordB, OverLimit>>}

\* answers of the models in the worker threads: success or a failure
AsyncOracles(fn, n) ==
    IF fn = "embed"
    THEN {[i \in 1..n |-> [ok |-> TRUE, v |-> 1, exc |-> ""]],
          [i \in 1..n |-> [ok |-> FALSE, v |-> 0, exc |-> "RuntimeError"]]}
    ELSE IF fn = "rerank"
    THEN {[ok |-> TRUE, scores |-> [i \in 1..n |-> i], exc |-> ""],
          [ok |-> FALSE, scores |-> <<>>, exc |-> "RuntimeError"]}
    ELSE {[ok |-> TRUE, summary |-> "s1", exc |-> ""],
          [ok |-> FALSE, summary |-> "", exc |-> "RuntimeError"]}

\* the task suspended in 'await asyncio.to_thread(...)', with the arguments
\* its caller passed
Awaiting(wrapper, q, its, txt) ==
    [st |-> "awaiting", wrapper |-> wrapper, query |-> q, items |-> its,
     text |-> txt, result |-> NoResult]

embed_texts(t) ==
    /\ task[t].st = "idle"
    /\ \E texts \in AsyncTexts :
           /\ task' = [task EXCEPT ![t] =
                          Awaiting("embed_texts", EmptyStr, texts, EmptyStr)]
           /\ queue' = Append(queue, EmbedTextsItem(t, texts))
    /\ cfut' = [cfut EXCEPT ![t].state = "PENDING"]
    /\ UNCHANGED <<running, syncVars, gen>>

rerank_documents(t) ==
    /\ task[t].st = "idle"
    /\ \E args \in AsyncRerankArgs :
           /\ task' = [task EXCEPT ![t] =
                          Awaiting("rerank_documents", args[1], args[2], EmptyStr)]
           /\ queue' = Append(queue, RerankDocumentsItem(t, args[1], args[2]))
    /\ cfut' = [cfut EXCEPT ![t].state = "PENDING"]
    /\ UNCHANGED <<running, syncVars, gen>>

summarize_text(t) ==
    /\ task[t].st = "idle"
    /\ \E args \in AsyncSummarizeArgs :
           /\ task' = [task EXCEPT ![t] =
                          Awaiting("summarize_text", args[1], <<>>, args[2])]
           /\ queue' = Append(queue, SummarizeTextItem(t, args[1], args[2]))
    /\ cfut' = [cfut EXCEPT ![t].state = "PENDING"]
    /\ UNCHANGED <<running, syncVars, gen>>

\* a pool thread that runs nothing (the pool has at most PoolSize threads)
\* takes the next work item; an item whose future was cancelled is dropped
\* without being run
WorkerTake ==
    /\ Cardinality(running) < PoolSize
    /\ queue # <<>>
    /\ LET item == Head(queue)
       IN  IF cfut[item.fut].state = "CANCELLED"
           THEN UNCHANGED <<running, cfut>>
           ELSE /\ running' = running \cup {item}
                /\ cfut' = [cfut EXCEPT ![item.fut].state = "RUNNING"]
    /\ queue' = Tail(queue)
    /\ UNCHANGED <<task, syncVars, gen>>

\* the thread running the item of task t runs the method to its end and sets
\* the future's result or exception
WorkerRun(t) ==
    \E item \in running :
        /\ item.fut = t
        /\ \E orc \in AsyncOracles(item.fn, Len(item.items)) :
               cfut' = [cfut EXCEPT ![t] =
                           [state |-> "FINISHED",
                            result |-> RunItem(item, orc).ret,
                            runs |-> @.runs + 1]]
        /\ running' = running \ {item}
        /\ UNCHANGED <<task, queue, syncVars, gen>>

\* the event loop resumes the task awaiting a finished future
Wake(t) ==
    /\ task[t].st = "awaiting"
    /\ cfut[t].state = "FINISHED"
    /\ task' = [task EXCEPT ![t].st = "done",
                            ![t].result = AwaitOutcome(cfut[t].result)]
    /\ UNCHANGED <<queue, cfut, running, syncVars, gen>>

\* the caller cancels the task while it awaits
Cancel(t) ==
    /\ task[t].st = "awaiting"
    /\ task' = [task EXCEPT ![t].st = "cancelled"]
    /\ cfut' = [cfut EXCEPT ![t].state = CancelFuture(@)]
    /\ UNCHANGED <<queue, running, syncVars, gen>>

AsyncNext ==
    \/ \E t \in Tasks : embed_texts(t)
    \/ \E t \in Tasks : rerank_documents(t)
    \/ \E t \in Tasks : summarize_text(t)
    \/ WorkerTake
    \/ \E t \in Tasks : WorkerRun(t)
    \/ \E t \in Tasks : Wake(t)
    \/ \E t \in Tasks : Cancel(t)

----------------------------------------------------------------------------
(* OpenAILLM.generate under @retry(stop=stop_after_attempt(6)) *)

MAX_ATTEMPTS == 6

SearchErrors ==
    {"GoogleSearchError", "SemanticSearchError", "ArxivSearchError",
     "WebParserParserError", "YoutubeParserError"}

OtherErrors == {"ValueError", "TimeoutError"}

Messages == {"m1", "m2", "m3"}

\* what agent_executor.invoke does: returns a dict, with or without the key
\* "output", or raises
InvokeOutcomes ==
    [kind : {"return"}, exc : {""}, msg : {""}, value : {<<"answer">>, <<>>}]
        \cup [kind : {"raise"}, exc : SearchErrors \cup OtherErrors,
              msg : Messages, value : {<<>>}]

\* what the lines before the invoke call do: pass, or raise
SetupOutcomes ==
    {Return(<<>>)} \cup {Raise(e, "m1") : e \in OtherErrors}

\* result.get("output", "")
GetOutput(dict) == IF dict = <<>> THEN <<"">> ELSE dict

\* faulty variant: without the final 'except Exception' handler
InvokeStageNoCatchAll(o) ==
    IF o.kind = "return" THEN Return(GetOutput(o.value))
    ELSE IF o.exc \in SearchErrors THEN Return(<<o.msg>>)
    ELSE Raise(o.exc, o.msg)

\* the try statement around agent_executor.invoke; a str is the sequence of
\* the parts it is formatted from
InvokeStage(o) ==
    IF o.kind = "return" THEN Return(GetOutput(o.value))
    ELSE IF o.exc \in SearchErrors THEN Return(<<o.msg>>)
    ELSE Return(<<"An error occurred: ", o.msg>>)

NoGenerate ==
    [pc |-> "idle", attempt |-> 0, ret |-> <<>>, exc |-> "", msg |-> ""]

\* what the retry policy does with an exception leaving the function body
Retry(g, e) ==
    IF g.attempt < MAX_ATTEMPTS
    THEN [g EXCEPT !.pc = "setup", !.attempt = @ + 1, !.exc = e.exc, !.msg = e.msg]
    ELSE [g EXCEPT !.pc = "raised", !.exc = "RetryError", !.msg = e.exc]

generate ==
    /\ gen.pc = "idle"
    /\ gen' = [gen EXCEPT !.pc = "setup", !.attempt = 1]
    /\ UNCHANGED <<syncVars, asyncVars>>

\* one attempt, up to the invoke call
GenerateSetup ==
    /\ gen.pc = "setup"
    /\ \E o \in SetupOutcomes :
           gen' = IF o.kind = "raise" THEN Retry(gen, o)
                  ELSE [gen EXCEPT !.pc = "invoke"]
    /\ UNCHANGED <<syncVars, asyncVars>>

\* the invoke call of that attempt and its handlers
GenerateInvoke ==
    /\ gen.pc = "invoke"
    /\ \E o \in InvokeOutcomes :
           LET r == InvokeStage(o)
           IN  gen' = IF r.kind = "raise" THEN Retry(gen, r)
                      ELSE [gen EXCEPT !.pc = "returned", !.ret = r.value,
                                       !.exc = o.exc, !.msg = o.msg]
    /\ UNCHANGED <<syncVars, asyncVars>>

GenNext == generate \/ GenerateSetup \/ GenerateInvoke

----------------------------------------------------------------------------
(* Specifications *)

\* the synchronous methods on every input of the bounded sets
SyncInit ==
    /\ call \in EmbedCalls \cup RerankCalls \cup SummarizeCalls
    /\ oracle \in Oracles(call)
    /\ eff = NoEffect
    /\ pc = "called"
    /\ task = [t \in Tasks |-> IdleTask]
    /\ queue = <<>>
    /\ cfut = [t \in Tasks |-> NoFuture]
    /\ running = {}
    /\ gen = NoGenerate

SyncSpec == SyncInit /\ [][SyncNext]_vars

\* tasks calling the wrappers concurrently
Init ==
    /\ call = [fn |-> "none", query |-> EmptyStr, items |-> <<>>, text |-> EmptyStr]
    /\ oracle = <<>>
    /\ eff = NoEffect
    /\ pc = "idle"
    /\ task = [t \in Tasks |-> IdleTask]
    /\ queue = <<>>
    /\ cfut = [t \in Tasks |-> NoFuture]
    /\ running = {}
    /\ gen = NoGenerate

Next == AsyncNext

Spec == Init /\ [][Next]_vars

\* pool threads run and the event loop resumes tasks whose future is done
Fairness ==
    /\ WF_vars(WorkerTake)
    /\ \A t \in Tasks : WF_vars(WorkerRun(t)) /\ WF_vars(Wake(t))

FairSpec == Spec /\ Fairness

\* a call of generate
GenSpec == Init /\ [][GenNext]_vars

----------------------------------------------------------------------------
(* Claims about the synchronous methods *)

ValidQueries == {WordA, Padded}

InvalidElements == {EmptyStr, BlankStr, NonStr}

Injections(n) ==
    {p \in [1..n -> 1..n] : \A i, j \in 1..n : p[i] = p[j] => i = j}

RerankReturned ==
    /\ pc = "returned"
    /\ call.fn = "rerank"
    /\ call.query \in ValidQueries

\* C1: for a non-blank query and two or more documents (the model having
\* scored them), rerank returns two sequences as long as the input, the
\* scores non-increasing, and the (document, score) pairs at equal indexes
\* are a permutation of the input documents paired with their scores.
C1_RerankSortedPermutation ==
    (RerankReturned /\ Len(call.items) >= 2 /\ oracle.ok) =>
        LET n == Len(call.items)
            docs == eff.ret.value[1]
            scores == eff.ret.value[2]
        IN  /\ eff.ret.kind = "return"
            /\ Len(docs) = n /\ Len(scores) = n
            /\ \A i \in 1..(n - 1) : scores[i] >= scores[i + 1]
            /\ \E p \in Injections(n) :
                   \A i \in 1..n : /\ docs[i] = call.items[p[i]]
                                   /\ scores[i] = oracle.scores[p[i]]

C1_Witness ==
    /\ RerankReturned
    /\ call.items = <<WordA, WordB, WordA>>
    /\ oracle.ok /\ oracle.scores = <<0, 2, 1>>
    /\ eff.ret.value = << <<WordB, WordA, WordA>>, <<2, 1, 0>> >>

\* C2: for a non-blank query, rerank of an empty list or of a single document
\* returns ([], []), logs a warning and makes no call of compute_score.
C2_RerankFewDocuments ==
    (RerankReturned /\ Len(call.items) < 2) =>
        /\ eff.ret.kind = "return"
        /\ eff.ret.value = << <<>>, <<>> >>
        /\ eff.log = <<"warning">>
        /\ eff.calls = 0

C2_Witness ==
    /\ RerankReturned
    /\ call.items = <<WordB>>
    /\ eff.ret.kind = "return" /\ eff.ret.value = << <<>>, <<>> >>

EmbedReturned == pc = "returned" /\ call.fn = "embed"

HasInvalidElement(texts) ==
    \E i \in 1..Len(texts) : texts[i] \in InvalidElements

\* C3: embed of an empty list, or of a list holding an empty, whitespace-only
\* or non-string element, raises ValueError, and encode is never called.
C3_EmbedInvalidInput ==
    (EmbedReturned /\ (call.items = <<>> \/ HasInvalidElement(call.items))) =>
        /\ eff.ret.kind = "raise"
        /\ eff.ret.exc = "ValueError"
        /\ eff.calls = 0

C3_Witness ==
    /\ EmbedReturned
    /\ call.items = <<WordA, BlankStr>>
    /\ eff.ret.kind = "raise" /\ eff.ret.exc = "ValueError"

\* C4: embed of a non-empty list of non-blank strings either returns one
\* vector per text, the i-th being the model's vector for the i-th text, or,
\* when the model fails on an item, fails as a whole with that failure; it
\* never returns a shorter list.
C4_EmbedAllOrNothing ==
    (EmbedReturned /\ call.items # <<>> /\ ~HasInvalidElement(call.items)) =>
        LET n == Len(call.items)
            failing == {i \in 1..n : ~oracle[i].ok}
        IN  IF failing = {}
            THEN /\ eff.ret.kind = "return"
                 /\ Len(eff.ret.value) = n
                 /\ \A i \in 1..n : eff.ret.value[i] = oracle[i].v
            ELSE /\ eff.ret.kind = "raise"
                 /\ \E i \in failing : /\ \A j \in failing : i <= j
                                       /\ eff.ret.exc = oracle[i].exc

C4_Witness ==
    /\ EmbedReturned
    /\ call.items = <<WordA, WordB>>
    /\ oracle[1].ok /\ ~oracle[2].ok
    /\ eff.ret.kind = "raise" /\ eff.ret.exc = "OutOfMemoryError"

BlankBodies == {EmptyStr, BlankStr, NonStr, BlankOverLimit}

LongBodies == {OverLimit, PaddedOverLimit, BlankOverLimit}

\* the message of the first violated precondition, in the order text blank,
\* query blank, text too long; "" when none is violated
FirstViolation(q, t) ==
    IF t \in BlankBodies THEN "Input text must be a non-empty string."
    ELSE IF q \notin ValidQueries THEN "Query must be a non-empty string."
    ELSE IF t \in LongBodies
    THEN "Input text exceeds the maximum length of 4096 characters."
    ELSE ""

\* C5: summarize checks text non-blank, then query non-blank, then
\* len(text) <= 4096, and raises ValueError for the first violated one; a
\* text of exactly 4096 characters is accepted; the summarization model is
\* called if and only if all three checks pass.
C5_SummarizeCheckOrder ==
    (pc = "returned" /\ call.fn = "summarize") =>
        LET v == FirstViolation(call.query, call.text)
        IN  /\ v # "" => /\ eff.ret.kind = "raise"
                         /\ eff.ret.exc = "ValueError"
                         /\ eff.ret.msg = v
            /\ (eff.calls = 1) <=> (v = "")
            /\ eff.calls \in {0, 1}
            /\ (call.text \in {AtLimit, PaddedAtLimit}
                    /\ call.query \in ValidQueries) => eff.calls = 1

C5_Witness ==
    /\ pc = "returned" /\ call.fn = "summarize"
    /\ call.text = BlankOverLimit
    /\ call.query = EmptyStr
    /\ eff.ret.msg = "Input text must be a non-empty string."

\* C9: with two or more documents, documents of equal score keep their input
\* order: the output is the input ordered by score descending, then by input
\* index ascending.
C9_RerankStable ==
    (RerankReturned /\ Len(call.items) >= 2 /\ oracle.ok) =>
        LET n == Len(call.items)
            docs == eff.ret.value[1]
            scores == eff.ret.value[2]
        IN  \E p \in Injections(n) :
                /\ \A i, j \in 1..n : i < j =>
                       \/ oracle.scores[p[i]] > oracle.scores[p[j]]
                       \/ /\ oracle.scores[p[i]] = oracle.scores[p[j]]
                          /\ p[i] < p[j]
                /\ docs = [i \in 1..n |-> call.items[p[i]]]
                /\ scores = [i \in 1..n |-> oracle.scores[p[i]]]

C9_Witness ==
    /\ RerankReturned
    /\ call.items = <<WordB, WordA, WordA>>
    /\ oracle.ok /\ oracle.scores = <<1, 2, 1>>
    /\ eff.ret.value = << <<WordA, WordB, WordA>>, <<2, 1, 1>> >>

----------------------------------------------------------------------------
(* Claims about the wrappers *)

\* the results the synchronous counterpart of a task's wrapper can produce
\* for the task's arguments, one per answer of the model
SyncResults(tk) ==
    IF tk.wrapper = "embed_texts"
    THEN {Embed(tk.items, o).ret : o \in AsyncOracles("embed", Len(tk.items))}
    ELSE IF tk.wrapper = "rerank_documents"
    THEN {Rerank(tk.query, tk.items, o).ret :
              o \in AsyncOracles("rerank", Len(tk.items))}
    ELSE {Summarize(tk.query, tk.text, o).ret : o \in AsyncOracles("summarize", 0)}

ResolvesAsSync ==
    \A t \in Tasks : task[t].st = "done" => task[t].result \in SyncResults(task[t])

Progress ==
    \/ WorkerTake
    \/ \E t \in Tasks : WorkerRun(t) \/ Wake(t)

NoDeadlock ==
    (\E t \in Tasks : task[t].st = "awaiting") => ENABLED Progress

\* C6: with the wrappers called concurrently from several tasks over a
\* bounded pool, no state with an awaiting task is stuck, every awaiting task
\* eventually resolves, and a task that resolves with a result has a result
\* its synchronous counterpart produces for the same arguments.
C6_ConcurrentCallsResolve ==
    /\ [](ResolvesAsSync /\ NoDeadlock)
    /\ \A t \in Tasks :
           (task[t].st = "awaiting") ~> (task[t].st \in {"done", "cancelled"})

C6_Witness ==
    \E t1, t2 \in Tasks :
        /\ task[t1].st = "done" /\ task[t1].wrapper = "rerank_documents"
        /\ task[t1].result = Return(<< <<WordB, WordA>>, <<2, 1>> >>)
        /\ task[t2].st = "awaiting" /\ task[t2].wrapper = "summarize_text"
        /\ cfut[t2].state = "PENDING"
        /\ queue # <<>>

\* arguments outside the methods' ordinary domain
Degenerate(tk) ==
    IF tk.wrapper = "embed_texts"
    THEN tk.items = <<>> \/ HasInvalidElement(tk.items)
    ELSE IF tk.wrapper = "rerank_documents"
    THEN tk.query \notin ValidQueries \/ Len(tk.items) < 2
    ELSE FirstViolation(tk.query, tk.text) # ""

\* C7: an error raised in the offloaded call is raised unchanged in the
\* awaiting task; the method is run once per call (no retry) and an error is
\* never replaced by a value (no fallback); a degenerate call resolves with a
\* value only for rerank_documents with fewer than two documents.
C7_ErrorsPropagateUnchanged ==
    \A t \in Tasks :
        /\ cfut[t].runs <= 1
        /\ task[t].st = "done" =>
            /\ cfut[t].runs = 1
            /\ cfut[t].result.kind = "raise" => task[t].result = cfut[t].result
            /\ (\A r \in SyncResults(task[t]) : r.kind = "raise") =>
                   task[t].result \in SyncResults(task[t])
            /\ (Degenerate(task[t]) /\ task[t].result.kind = "return") =>
                   /\ task[t].wrapper = "rerank_documents"
                   /\ task[t].query \in ValidQueries
                   /\ Len(task[t].items) < 2

C7_Witness ==
    \E t1, t2 \in Tasks :
        /\ task[t1].st = "done" /\ task[t1].wrapper = "summarize_text"
        /\ task[t1].result =
               Raise("ValueError",
                     "Input text exceeds the maximum length of 4096 characters.")
        /\ task[t2].st = "done" /\ task[t2].wrapper = "embed_texts"
        /\ task[t2].result = Raise("RuntimeError", "")

\* C8: cancelling a task whose work item is running on a pool thread leaves
\* the executor future and the running items as they are; a thread gives up an item
\* only by finishing it; the cancelled task stays cancelled, without a
\* result; and the running call of a cancelled task does finish.
C8_CancelLeavesRunningWork ==
    /\ [][ /\ \A t \in Tasks :
                (task[t].st = "awaiting" /\ task'[t].st = "cancelled"
                     /\ cfut[t].state = "RUNNING")
                    => (cfut'[t] = cfut[t] /\ running' = running)
           /\ \A item \in running :
                item \notin running'
                    => /\ cfut'[item.fut].state = "FINISHED"
                       /\ cfut'[item.fut].runs = 1
           /\ \A t \in Tasks :
                task[t].st = "cancelled"
                    => (task'[t].st = "cancelled" /\ task'[t].result = NoResult)
         ]_vars
    /\ \A t \in Tasks :
           (task[t].st = "cancelled" /\ cfut[t].state = "RUNNING")
               ~> (cfut[t].state = "FINISHED" /\ cfut[t].runs = 1)

C8_Witness ==
    \E t \in Tasks :
        /\ task[t].st = "cancelled"
        /\ cfut[t].state = "RUNNING"
        /\ \E item \in running : item.fut = t

----------------------------------------------------------------------------
(* Claim about OpenAILLM.generate *)

\* C10: an exception raised by agent_executor.invoke becomes the returned
\* string (the error's message for the five search and parser errors,
\* otherwise 'An error occurred: ' and the error); the attempt that reached
\* the invoke call returns, so a retry or the final RetryError only follows a
\* failure before the invoke call, and there are at most 6 attempts.
C10_InvokeFailureReturned ==
    /\ [][ /\ gen.pc = "invoke" =>
                 (gen'.pc = "returned" /\ gen'.attempt = gen.attempt)
           /\ (gen'.attempt > gen.attempt \/ gen'.pc = "raised") =>
                 gen.pc \in {"idle", "setup"}
         ]_vars
    /\ [](gen.pc = "returned" /\ gen.exc # "" =>
              gen.ret = IF gen.exc \in SearchErrors
                        THEN <<gen.msg>>
                        ELSE <<"An error occurred: ", gen.msg>>)
    /\ [](gen.attempt <= 6)

C10_Witness ==
    /\ gen.pc = "returned"
    /\ gen.attempt = 3
    /\ gen.exc = "TimeoutError"
    /\ gen.ret = <<"An error occurred: ", "m2">>

====
